---- MODULE Spec2Model ----
(***************************************************************************)
(* Model of the charged-particle simulation: the field evaluator           *)
(* (config.js), the force model and RK4 integrator (physics.js), the       *)
(* particle store (visuals.js) and the simulation loop and GUI handlers    *)
(* (simulation.js).                                                        *)
(*                                                                         *)
(* Numbers.  A JavaScript number is modelled as a fixed-point integer      *)
(* (value * Scale), plus three reserved values for NaN and +/-Infinity.    *)
(* Products and quotients round toward zero, which keeps the sign          *)
(* symmetry of IEEE rounding.  Negative zero is not distinguished.         *)
(*                                                                         *)
(* Vectors.  A THREE.Vector3 is an object; the source passes and returns   *)
(* references to the shared scratch vectors of temp, so a vector argument  *)
(* is modelled as a reference into a store m = [p, t, err], where m.p is   *)
(* the particle array, m.t the scratch record and m.err the pending        *)
(* exception.                                                              *)
(***************************************************************************)
EXTENDS Integers, Sequences, FiniteSets, TLC

\* ------------------------------------------------------------------------
\* Bounds of the model
\* ------------------------------------------------------------------------
Scale == 1000
MaxCount == 2
MaxFrames == 2
MaxOps == 2

\* ------------------------------------------------------------------------
\* Numbers
\* ------------------------------------------------------------------------
PosInf == 2^30
NegInf == -(2^30)
NaN == 2^30 + 1

IsFinite(a) == a # NaN /\ a # PosInf /\ a # NegInf

One == Scale
Abs(a) == IF a < 0 THEN -a ELSE a
Sgn(a) == IF a = PosInf THEN 1 ELSE IF a = NegInf THEN -1
          ELSE IF a > 0 THEN 1 ELSE IF a < 0 THEN -1 ELSE 0

\* integer quotient rounded toward zero
TDiv(a, b) == IF (a < 0) = (b < 0) THEN Abs(a) \div Abs(b) ELSE -(Abs(a) \div Abs(b))

FNeg(a) == IF a = NaN THEN NaN
           ELSE IF a = PosInf THEN NegInf
           ELSE IF a = NegInf THEN PosInf
           ELSE -a

FAdd(a, b) == IF a = NaN \/ b = NaN THEN NaN
              ELSE IF a = PosInf THEN (IF b = NegInf THEN NaN ELSE PosInf)
              ELSE IF a = NegInf THEN (IF b = PosInf THEN NaN ELSE NegInf)
              ELSE IF b = PosInf \/ b = NegInf THEN b
              ELSE a + b

FSub(a, b) == FAdd(a, FNeg(b))

FMul(a, b) == IF a = NaN \/ b = NaN THEN NaN
              ELSE IF ~IsFinite(a) \/ ~IsFinite(b)
                   THEN (IF Sgn(a) * Sgn(b) = 0 THEN NaN
                         ELSE IF Sgn(a) * Sgn(b) > 0 THEN PosInf ELSE NegInf)
              ELSE TDiv(a * b, Scale)

FDiv(a, b) == IF a = NaN \/ b = NaN THEN NaN
              ELSE IF ~IsFinite(a)
                   THEN (IF ~IsFinite(b) THEN NaN
                         ELSE IF Sgn(a) * Sgn(b) < 0 THEN NegInf
                         ELSE IF Sgn(a) * Sgn(b) > 0 THEN PosInf ELSE a)
              ELSE IF ~IsFinite(b) THEN 0
              ELSE IF b = 0
                   THEN (IF a = 0 THEN NaN ELSE IF a > 0 THEN PosInf ELSE NegInf)
              ELSE TDiv(a * Scale, b)

FLess(a, b) == IF a = NaN \/ b = NaN THEN FALSE
               ELSE IF a = b THEN FALSE
               ELSE IF a = NegInf \/ b = PosInf THEN TRUE
               ELSE IF a = PosInf \/ b = NegInf THEN FALSE
               ELSE a < b

FMin(a, b) == IF a = NaN \/ b = NaN THEN NaN ELSE IF FLess(b, a) THEN b ELSE a
FMax(a, b) == IF a = NaN \/ b = NaN THEN NaN ELSE IF FLess(a, b) THEN b ELSE a

RECURSIVE ISqrtIn(_, _, _)
ISqrtIn(n, lo, hi) ==
    IF lo >= hi THEN lo
    ELSE LET mid == (lo + hi + 1) \div 2
         IN  IF mid * mid <= n THEN ISqrtIn(n, mid, hi) ELSE ISqrtIn(n, lo, mid - 1)

\* floor of the square root of a natural number below 2^31
ISqrt(n) == ISqrtIn(n, 0, 46340)

FSqrt(a) == IF a = NaN \/ a = NegInf THEN NaN
            ELSE IF a = PosInf THEN PosInf
            ELSE IF a < 0 THEN NaN
            ELSE ISqrt(a * Scale)

\* Math.pow(a, -1.5) for a >= 0
FPowM15(a) == FDiv(One, FMul(a, FSqrt(a)))

\* ------------------------------------------------------------------------
\* Program constants (config.js CONSTANTS).  SOFTENING (1e-6) and
\* C_SQUARED_EPSILON (1e-9) are positive quantities far below the values
\* they guard.  C_SQUARED_EPSILON is one grid unit.  SOFTENING is a
\* length below the particle separations of the simulation whose square and
\* whose power -3 are numbers well inside the grid (0.2: SOFTENING^2 = 0.04,
\* SOFTENING^-3 = 125), so that the floor of computeCoulombForce is positive
\* in the model as it is in the program and separations below it exist.
\* ------------------------------------------------------------------------
SOFTENING == 200
C_SQUARED_EPSILON == 1
MAX_DT == Scale \div 30

\* ------------------------------------------------------------------------
\* THREE.Vector3 arithmetic
\* ------------------------------------------------------------------------
Vec(a, b, c) == [x |-> a, y |-> b, z |-> c]
Zero3 == Vec(0, 0, 0)

VAdd(a, b) == Vec(FAdd(a.x, b.x), FAdd(a.y, b.y), FAdd(a.z, b.z))
VSub(a, b) == Vec(FSub(a.x, b.x), FSub(a.y, b.y), FSub(a.z, b.z))
VScale(a, s) == Vec(FMul(a.x, s), FMul(a.y, s), FMul(a.z, s))
VAddScaled(a, b, s) == Vec(FAdd(a.x, FMul(b.x, s)), FAdd(a.y, FMul(b.y, s)), FAdd(a.z, FMul(b.z, s)))
VDot(a, b) == FAdd(FAdd(FMul(a.x, b.x), FMul(a.y, b.y)), FMul(a.z, b.z))
VLengthSq(a) == VDot(a, a)
VCross(a, b) == Vec(FSub(FMul(a.y, b.z), FMul(a.z, b.y)),
                    FSub(FMul(a.z, b.x), FMul(a.x, b.z)),
                    FSub(FMul(a.x, b.y), FMul(a.y, b.x)))
VFinite(a) == IsFinite(a.x) /\ IsFinite(a.y) /\ IsFinite(a.z)

\* ------------------------------------------------------------------------
\* The store of vector objects: references, reads and writes
\* ------------------------------------------------------------------------
TempNames == {"vec1", "vec2", "vec3", "force", "r", "v",
              "k1r", "k1v", "k2r", "k2v", "k3r", "k3v", "k4r", "k4v"}

\* physics.js temp: fourteen scratch vectors, all (0,0,0) at load
temp0 == [n \in TempNames |-> Zero3]

TRef(name) == [o |-> "temp", f |-> name, i |-> 0]
PRef(idx, field) == [o |-> "p", f |-> field, i |-> idx]

Get(m, ref) == IF ref.o = "temp" THEN m.t[ref.f] ELSE m.p[ref.i][ref.f]

Put(m, ref, val) ==
    IF m.err # "none" THEN m
    ELSE IF ref.o = "temp" THEN [m EXCEPT !.t[ref.f] = val]
    ELSE [m EXCEPT !.p[ref.i][ref.f] = val]

Raise(m, e) == IF m.err # "none" THEN m ELSE [m EXCEPT !.err = e]

\* ------------------------------------------------------------------------
\* Field expressions (config.js).  An expression string is compiled with
\* new Function; the compiled function is identified by the string it was
\* compiled from.  "1 +" is a syntax error (new Function throws), "foo"
\* names an undefined identifier (compiles, throws ReferenceError whenever
\* it is called), "x < 0 ? foo : 0" throws it only where x < 0, "1/x" is
\* Infinity at x = 0 and "1/y" at y = 0.
\* ------------------------------------------------------------------------
FieldKeys == <<"E_x_str", "E_y_str", "E_z_str", "B_x_str", "B_y_str", "B_z_str">>
FnNames == <<"Ex", "Ey", "Ez", "Bx", "By", "Bz">>

FieldExprs == {"0.0", "1.0", "0", "1", "0.5", "5", "x", "-y", "t", "1/x", "1/y", "foo",
               "1 +", "x < 0 ? foo : 0"}

\* new Function(..., `return ${str};`) throws SyntaxError
SyntaxError(str) == str = "1 +"

\* a call of the compiled function at (r, t) throws ReferenceError
FnThrows(fn, r, t) == fn = "foo" \/ (fn = "x < 0 ? foo : 0" /\ FLess(r.x, 0))

\* the value a compiled function returns at (r, t)
FnValue(fn, r, t) ==
    CASE fn \in {"0.0", "0"} -> 0
      [] fn \in {"1.0", "1"} -> One
      [] fn = "0.5" -> One \div 2
      [] fn = "5" -> 5 * One
      [] fn = "x" -> r.x
      [] fn = "-y" -> FNeg(r.y)
      [] fn = "t" -> t
      [] fn = "1/x" -> FDiv(One, r.x)
      [] fn = "1/y" -> FDiv(One, r.y)
      [] fn = "x < 0 ? foo : 0" -> 0
      [] OTHER -> NaN

\* ------------------------------------------------------------------------
\* THREE.Vector3 methods.  Each takes the store and the references of the
\* receiver and of the vector arguments, and yields the store after the
\* call.  The receiver is written after the arguments are read, as in the
\* library, so a call stays defined when references coincide.
\* ------------------------------------------------------------------------
set(m, dst, vx, vy, vz) == Put(m, dst, Vec(vx, vy, vz))
copy(m, dst, src) == Put(m, dst, Get(m, src))
add(m, dst, src) == Put(m, dst, VAdd(Get(m, dst), Get(m, src)))
sub(m, dst, src) == Put(m, dst, VSub(Get(m, dst), Get(m, src)))
multiplyScalar(m, dst, s) == Put(m, dst, VScale(Get(m, dst), s))
addScaledVector(m, dst, src, s) == Put(m, dst, VAddScaled(Get(m, dst), Get(m, src), s))
subVectors(m, dst, v1, v2) == Put(m, dst, VSub(Get(m, v1), Get(m, v2)))
crossVectors(m, dst, v1, v2) == Put(m, dst, VCross(Get(m, v1), Get(m, v2)))
dot(m, v1, v2) == VDot(Get(m, v1), Get(m, v2))
lengthSq(m, v1) == VLengthSq(Get(m, v1))

\* ------------------------------------------------------------------------
\* physics.js
\* ------------------------------------------------------------------------
\* returns temp.vec1
electricField(m, F, rRef, t) ==
    IF m.err # "none" THEN m
    ELSE LET r == Get(m, rRef)
         IN  IF FnThrows(F.Ex, r, t) \/ FnThrows(F.Ey, r, t) \/ FnThrows(F.Ez, r, t)
             THEN Raise(m, "ReferenceError")
             ELSE set(m, TRef("vec1"),
                      FnValue(F.Ex, r, t), FnValue(F.Ey, r, t), FnValue(F.Ez, r, t))

\* returns temp.vec2
magneticField(m, F, rRef, t) ==
    IF m.err # "none" THEN m
    ELSE LET r == Get(m, rRef)
         IN  IF FnThrows(F.Bx, r, t) \/ FnThrows(F.By, r, t) \/ FnThrows(F.Bz, r, t)
             THEN Raise(m, "ReferenceError")
             ELSE set(m, TRef("vec2"),
                      FnValue(F.Bx, r, t), FnValue(F.By, r, t), FnValue(F.Bz, r, t))

\* a defective loop body: the squared distance is used without the floor
coulombAccumulateUnsoftened(m, P, particleIndex, j) ==
    LET dist2 == lengthSq(m, TRef("r"))
        invDist3 == FPowM15(dist2)
        scalar == FMul(FMul(FMul(P.physics.k_e, m.p[particleIndex].q), m.p[j].q), invDist3)
    IN  addScaledVector(m, TRef("vec3"), TRef("r"), scalar)

\* computeCoulombForce, the loop body after r_ji = temp.r.subVectors(pi.r, pj.r)
coulombAccumulate(m, P, particleIndex, j) ==
    LET dist2 == FMax(lengthSq(m, TRef("r")), FMul(SOFTENING, SOFTENING))
        invDist3 == FPowM15(dist2)
        scalar == FMul(FMul(FMul(P.physics.k_e, m.p[particleIndex].q), m.p[j].q), invDist3)
    IN  addScaledVector(m, TRef("vec3"), TRef("r"), scalar)

\* a defective separation: it is taken from the stage position vector of
\* rk4Step (temp.vec2) in place of the stored position of the particle
coulombSeparationFromStage(m, particleIndex, j) ==
    subVectors(m, TRef("r"), TRef("vec2"), PRef(j, "r"))

\* computeCoulombForce: r_ji = temp.r.subVectors(pi.r, pj.r), with pi and pj
\* elements of currentParticles
coulombSeparation(m, particleIndex, j) ==
    subVectors(m, TRef("r"), PRef(particleIndex, "r"), PRef(j, "r"))

\* computeCoulombForce, the loop from index j on
RECURSIVE CoulombLoop(_, _, _, _)
CoulombLoop(m, P, particleIndex, j) ==
    IF j > Len(m.p) THEN m
    ELSE IF particleIndex = j THEN CoulombLoop(m, P, particleIndex, j + 1)
    ELSE CoulombLoop(
             coulombAccumulate(coulombSeparation(m, particleIndex, j), P, particleIndex, j),
             P, particleIndex, j + 1)

\* a defective computeCoulombForce: the sum starts from what temp.vec3 holds
computeCoulombForceStale(m, P, particleIndex) ==
    IF m.err # "none" THEN m
    ELSE CoulombLoop(m, P, particleIndex, 1)

\* returns temp.vec3
computeCoulombForce(m, P, particleIndex) ==
    IF m.err # "none" THEN m
    ELSE CoulombLoop(set(m, TRef("vec3"), 0, 0, 0), P, particleIndex, 1)

\* a defective gamma: the squared speed is used without the clamp
relGammaUnclamped(m, P, particleIndex, vRef) ==
    LET c == P.physics.c
        cSq == FMul(c, c)
        vSq == lengthSq(m, vRef)
    IN  [m EXCEPT !.p[particleIndex].gamma = FDiv(One, FSqrt(FSub(One, FDiv(vSq, cSq))))]

\* computeAcceleration, relativistic branch: particle.gamma = ...
relGamma(m, P, particleIndex, vRef) ==
    LET c == P.physics.c
        cSq == FMul(c, c)
        vSq == FMin(lengthSq(m, vRef), FSub(cSq, C_SQUARED_EPSILON))
    IN  [m EXCEPT !.p[particleIndex].gamma = FDiv(One, FSqrt(FSub(One, FDiv(vSq, cSq))))]

\* relativistic branch: v_dot_E and term_v_v_dot_E_over_cSq (in temp.vec1)
relTerm(m, P, vRef) ==
    LET cSq == FMul(P.physics.c, P.physics.c)
        E == TRef("vec1")
        v_dot_E == dot(m, vRef, E)
    IN  multiplyScalar(copy(m, TRef("vec1"), vRef), TRef("vec1"), FDiv(v_dot_E, cSq))

\* relativistic branch: v_cross_B (in temp.vec2)
relCross(m, vRef) == crossVectors(m, TRef("vec2"), vRef, TRef("vec2"))

\* relativistic branch: fullForce = temp.force.copy(E).add(v_cross_B).sub(term)
relFullForce(m) ==
    sub(add(copy(m, TRef("force"), TRef("vec1")), TRef("force"), TRef("vec2")),
        TRef("force"), TRef("vec1"))

\* relativistic branch: return fullForce.multiplyScalar(q / (gamma * m))
relReturn(m, P, particleIndex) ==
    multiplyScalar(m, TRef("force"),
                   FDiv(m.p[particleIndex].q,
                        FMul(m.p[particleIndex].gamma, P.physics.restMass)))

\* classical branch: particle.gamma = 1.0
clGamma(m, particleIndex) == [m EXCEPT !.p[particleIndex].gamma = One]

\* classical branch: v_cross_B (in temp.v)
clCross(m, vRef) == crossVectors(m, TRef("v"), vRef, TRef("vec2"))

\* classical branch: lorentz = temp.force.copy(E).add(v_cross_B).multiplyScalar(q)
clLorentz(m, particleIndex) ==
    multiplyScalar(add(copy(m, TRef("force"), TRef("vec1")), TRef("force"), TRef("v")),
                   TRef("force"), m.p[particleIndex].q)

\* a defective drag: temp.vec1, which holds E, is scaled without copy(v)
clDragOfField(m, P, vRef) ==
    multiplyScalar(m, TRef("vec1"), FNeg(P.physics.friction))

\* classical branch: drag = temp.vec1.copy(v).multiplyScalar(-friction)
clDrag(m, P, vRef) ==
    multiplyScalar(copy(m, TRef("vec1"), vRef), TRef("vec1"), FNeg(P.physics.friction))

\* classical branch: totalForce = lorentz.add(drag).add(coulomb), and the return
clReturn(m, P) ==
    multiplyScalar(add(add(m, TRef("force"), TRef("vec1")), TRef("force"), TRef("vec3")),
                   TRef("force"), FDiv(One, P.physics.restMass))

\* a defective computeAcceleration: the relativistic branch keeps the drag
\* and Coulomb terms of the classical one
computeAccelerationWithDragAndCoulomb(m, P, F, particleIndex, rRef, vRef, t) ==
    IF m.err # "none" THEN m
    ELSE clReturn(
             computeCoulombForce(
                 clDrag(
                     clLorentz(
                         clCross(
                             magneticField(
                                 electricField(relGamma(m, P, particleIndex, vRef), F, rRef, t),
                                 F, rRef, t),
                             vRef),
                         particleIndex),
                     P, vRef),
                 P, particleIndex),
             P)

\* returns temp.force; r and v are references
computeAcceleration(m, P, F, particleIndex, rRef, vRef, t) ==
    IF m.err # "none" THEN m
    ELSE IF P.physics.useRelativity
    THEN relReturn(
             relFullForce(
                 relCross(
                     relTerm(
                         magneticField(
                             electricField(relGamma(m, P, particleIndex, vRef), F, rRef, t),
                             F, rRef, t),
                         P, vRef),
                     vRef)),
             P, particleIndex)
    ELSE clReturn(
             computeCoulombForce(
                 clDrag(
                     clLorentz(
                         clCross(
                             magneticField(
                                 electricField(clGamma(m, particleIndex), F, rRef, t),
                                 F, rRef, t),
                             vRef),
                         particleIndex),
                     P, vRef),
                 P, particleIndex),
             P)

Half == One \div 2
Sixth == FDiv(One, 6 * One)

\* the closure a = (vel, pos, time) => computeAcceleration(i, pos, vel, time, ...);
\* its result a1..a4 is the reference computeAcceleration returns
a(m, P, F, i, vel, pos, time) == computeAcceleration(m, P, F, i, pos, vel, time)
aResult == TRef("force")

\* the stage vectors v2, v3, v4 and r2, r3, r4 of rk4Step
vStage == TRef("vec1")
rStage == TRef("vec2")

\* the two statements after each call of a: kNv = aN * dt, kNr = vN * dt
rk4K(m, kv, kr, vN, dt) ==
    multiplyScalar(copy(multiplyScalar(copy(m, kv, aResult), kv, dt), kr, vN), kr, dt)

\* a defective rk4Stage: vN = p.v.addScaledVector(kv, s), which advances the
\* particle's own velocity vector before the scratch vector is filled from it
rk4StageInPlace(m, i, kv, kr, s) ==
    addScaledVector(copy(copy(addScaledVector(m, PRef(i, "v"), kv, s), vStage, PRef(i, "v")),
                         rStage, PRef(i, "r")),
                    rStage, kr, s)

\* the stage arguments: vN = temp.vec1.copy(p.v).addScaledVector(kv, s) and
\* rN = temp.vec2.copy(p.r).addScaledVector(kr, s)
rk4Stage(m, i, kv, kr, s) ==
    addScaledVector(copy(addScaledVector(copy(m, vStage, PRef(i, "v")), vStage, kv, s),
                         rStage, PRef(i, "r")),
                    rStage, kr, s)

\* rk4Step, the statements under "k1"; like every group of statements below,
\* it is skipped once an exception is propagating
rk4K1(m, P, F, i, dt, t) ==
    IF m.err # "none" THEN m ELSE
    rk4K(a(m, P, F, i, PRef(i, "v"), PRef(i, "r"), t),
         TRef("k1v"), TRef("k1r"), PRef(i, "v"), dt)

\* rk4Step, the statements under "k2"
rk4K2(m, P, F, i, dt, t) ==
    IF m.err # "none" THEN m ELSE
    rk4K(a(rk4Stage(m, i, TRef("k1v"), TRef("k1r"), Half),
           P, F, i, vStage, rStage, FAdd(t, FDiv(dt, 2 * One))),
         TRef("k2v"), TRef("k2r"), vStage, dt)

\* rk4Step, the statements under "k3"
rk4K3(m, P, F, i, dt, t) ==
    IF m.err # "none" THEN m ELSE
    rk4K(a(rk4Stage(m, i, TRef("k2v"), TRef("k2r"), Half),
           P, F, i, vStage, rStage, FAdd(t, FDiv(dt, 2 * One))),
         TRef("k3v"), TRef("k3r"), vStage, dt)

\* rk4Step, the statements under "k4" (add(k) is addScaledVector(k, 1))
rk4K4(m, P, F, i, dt, t) ==
    IF m.err # "none" THEN m ELSE
    rk4K(a(rk4Stage(m, i, TRef("k3v"), TRef("k3r"), One),
           P, F, i, vStage, rStage, FAdd(t, dt)),
         TRef("k4v"), TRef("k4r"), vStage, dt)

\* rk4Step, one line of "Combine": out = k1 + 2 k2 + 2 k3 + k4, times 1/6
rk4Sum(m, out, k1, k2, k3, k4) ==
    multiplyScalar(
        add(addScaledVector(addScaledVector(copy(m, out, k1), out, k2, 2 * One),
                            out, k3, 2 * One),
            out, k4),
        out, Sixth)

\* rk4Step, the statements under "Combine": dr is temp.r, dv is temp.v
rk4Combine(m) ==
    IF m.err # "none" THEN m ELSE
    rk4Sum(rk4Sum(m, TRef("r"), TRef("k1r"), TRef("k2r"), TRef("k3r"), TRef("k4r")),
           TRef("v"), TRef("k1v"), TRef("k2v"), TRef("k3v"), TRef("k4v"))

rk4Step(m, P, F, i, dt, t) ==
    rk4Combine(rk4K4(rk4K3(rk4K2(rk4K1(m, P, F, i, dt, t), P, F, i, dt, t),
                           P, F, i, dt, t), P, F, i, dt, t))

\* the object rk4Step returns
rk4StepResult == [dr |-> TRef("r"), dv |-> TRef("v")]

\* ------------------------------------------------------------------------
\* config.js: PARAMS, fieldFunctions, compileFieldFunctions
\* ------------------------------------------------------------------------
\* a decimal literal of the source, given in thousandths
Milli(n) == TDiv(n * Scale, 1000)

PARAMS0 ==
    [physics |-> [useRelativity |-> FALSE, c |-> Milli(20000), restMass |-> Milli(1000),
                  friction |-> 0, k_e |-> 0, baseCharge |-> Milli(1000),
                  animationSpeed |-> Milli(1500)],
     particles |-> [count |-> 1, randomCharge |-> FALSE,
                    initVx |-> Milli(2000), initVy |-> 0, initVz |-> 0],
     fields |-> [E_x_str |-> "0.0", E_y_str |-> "0.0", E_z_str |-> "0.0",
                 B_x_str |-> "0.0", B_y_str |-> "0.0", B_z_str |-> "1.0"]]

\* the arrow functions fieldFunctions holds at module load: all return 0
fieldFunctions0 == [Ex |-> "0", Ey |-> "0", Ez |-> "0", Bx |-> "0", By |-> "0", Bz |-> "0"]

\* the six assignments of compileFieldFunctions from the k-th on; the first
\* expression that does not compile throws and leaves the rest unassigned
RECURSIVE compileFrom(_, _, _)
compileFrom(fields, F, k) ==
    IF k > 6 THEN [F |-> F, thrown |-> FALSE]
    ELSE IF SyntaxError(fields[FieldKeys[k]]) THEN [F |-> F, thrown |-> TRUE]
    ELSE compileFrom(fields, [F EXCEPT ![FnNames[k]] = fields[FieldKeys[k]]], k + 1)

\* returns true, or the object {error: true, message} from the catch block
compileFieldFunctions(P, F) ==
    LET c == compileFrom(P.fields, F, 1)
    IN  IF c.thrown THEN [F |-> c.F, ret |-> "errorObject"]
        ELSE IF FnThrows(c.F.Ex, Zero3, 0) THEN [F |-> c.F, ret |-> "errorObject"]
        ELSE [F |-> c.F, ret |-> "true"]

\* JavaScript truthiness of a value returned by compileFieldFunctions
Truthy(ret) == ret # "false"

\* ------------------------------------------------------------------------
\* visuals.js: Particle, ParticleSystem
\* ------------------------------------------------------------------------
\* Math.cos and Math.sin of 2*PI*i/count, i = 0..count-1, in thousandths
CosTab == <<  <<1000>>, <<1000, -1000>>, <<1000, -500, -500>>, <<1000, 0, -1000, 0>> >>
SinTab == <<  <<0>>, <<0, 0>>, <<0, 866, -866>>, <<0, 1000, 0, -1000>> >>

Particle(initPos, initVel, charge) == [r |-> initPos, v |-> initVel, q |-> charge, gamma |-> One]

\* values (Math.random() - 0.5) * 2 can take, a sample of [-1, 1)
RandFactors == {-One, One \div 2}

\* the particle arrays setupParticles can build; rv and rq are the random
\* draws (per particle) for velocity components and charge
setupParticles(P, randomize, rv, rq) ==
    LET count == P.particles.count
        radius == Milli(2500)
    IN  [i \in 1..count |->
            LET initPos == Vec(FMul(Milli(CosTab[count][i]), radius),
                               FMul(Milli(SinTab[count][i]), radius), 0)
                initVel == IF randomize
                           THEN Vec(FMul(rv[i].x, P.particles.initVx),
                                    FMul(rv[i].y, P.particles.initVy),
                                    FMul(rv[i].z, P.particles.initVz))
                           ELSE Vec(P.particles.initVx, P.particles.initVy, P.particles.initVz)
                charge == IF P.particles.randomCharge
                          THEN FMul(rq[i], P.physics.baseCharge)
                          ELSE P.physics.baseCharge
            IN  Particle(initPos, initVel, charge)]

NewParticles(P, randomize) ==
    LET n == P.particles.count
        RV == IF randomize THEN [1..n -> [x : RandFactors, y : RandFactors, z : RandFactors]]
              ELSE {[i \in 1..n |-> Vec(One, One, One)]}
        RQ == IF P.particles.randomCharge THEN [1..n -> RandFactors]
              ELSE {[i \in 1..n |-> One]}
    IN  {setupParticles(P, randomize, rv, rq) : rv \in RV, rq \in RQ}

\* a defective applyUpdate: the visual update that follows p.r.add(dr) and
\* p.v.add(dv) in the callback throws
applyUpdateThrows(m, stagedUpdates, i) ==
    Raise(add(add(m, PRef(i, "r"), stagedUpdates[i].dr), PRef(i, "v"), stagedUpdates[i].dv),
          "TypeError")

\* one iteration of the forEach of applyUpdates: p.r.add(dr); p.v.add(dv),
\* where dr and dv are the vectors the staged update of particle i refers to
applyUpdate(m, stagedUpdates, i) ==
    add(add(m, PRef(i, "r"), stagedUpdates[i].dr), PRef(i, "v"), stagedUpdates[i].dv)

\* ------------------------------------------------------------------------
\* State
\* ------------------------------------------------------------------------
VARIABLES
    PARAMS,          \* config.js PARAMS
    fieldFunctions,  \* config.js fieldFunctions
    temp,            \* physics.js temp
    particles,       \* simulation.particleSystem.particles
    isPaused,        \* simulation.isPaused
    totalTimeSec,    \* simulation.totalTimeSec
    lastTimeSec,     \* simulation.lastTimeSec
    nowSec,          \* performance.now() / 1000 at the latest frame callback
    fieldError,      \* fieldErrorDiv.style.display
    timeDisplay,     \* timeDisplay.textContent, as a number
    alerts,          \* number of alert() calls made
    pc,              \* position inside update(): idle, map, apply, ui
    dt,              \* the local dt of update()
    k,               \* index of the particle map/forEach is at
    stagedUpdates,   \* the array map() is building
    hist,            \* history: the handler that ran last and what it saw
    ops,             \* GUI events handled so far
    frames           \* frame callbacks that reached the step so far

vars == <<PARAMS, fieldFunctions, temp, particles, isPaused, totalTimeSec, lastTimeSec,
          nowSec, fieldError, timeDisplay, alerts, pc, dt, k, stagedUpdates, hist, ops, frames>>

Store == [p |-> particles, t |-> temp, err |-> "none"]

\* ------------------------------------------------------------------------
\* Inputs the handlers are driven with
\* ------------------------------------------------------------------------
\* wall-clock time between two frame callbacks: none, one 60 Hz frame,
\* a long pause of the tab
Gaps == {0, Milli(16), Milli(2000)}
CValues == {Milli(1000), Milli(20000)}
BaseChargeValues == {Milli(-1000), Milli(1000)}
RestMassValues == {Milli(1000), Milli(2000)}
FrictionValues == {0, Milli(100)}
KeValues == {0, Milli(10000)}
CountValues == 1..MaxCount
InitVxValues == {Milli(2000), Milli(30000)}
AnimationSpeedValues == {Milli(1500), Milli(10000)}
ChargeValues == {Milli(-1000), Milli(1000)}
EditKeys == {"E_x_str", "E_y_str", "B_z_str"}
EditExprs == {"0", "x", "1/y", "foo", "1 +", "x < 0 ? foo : 0"}

Perms(n) == {f \in [1..n -> 1..n] : \A i, j \in 1..n : f[i] = f[j] => i = j}

\* ------------------------------------------------------------------------
\* presets.js
\* ------------------------------------------------------------------------
presetCyclotron(P) ==
    [P EXCEPT !.physics.useRelativity = FALSE, !.physics.baseCharge = Milli(1000),
              !.physics.restMass = Milli(1000), !.physics.friction = 0, !.physics.k_e = 0,
              !.fields = [E_x_str |-> "0", E_y_str |-> "0", E_z_str |-> "0",
                          B_x_str |-> "0", B_y_str |-> "0", B_z_str |-> "1"],
              !.particles = [count |-> 1, randomCharge |-> FALSE,
                             initVx |-> Milli(2000), initVy |-> 0, initVz |-> 0]]

presetExBDrift(P) ==
    [P EXCEPT !.physics.useRelativity = FALSE, !.physics.baseCharge = Milli(1000),
              !.physics.restMass = Milli(1000), !.physics.friction = 0, !.physics.k_e = 0,
              !.fields = [E_x_str |-> "0", E_y_str |-> "0.5", E_z_str |-> "0",
                          B_x_str |-> "0", B_y_str |-> "0", B_z_str |-> "1"],
              !.particles = [count |-> 1, randomCharge |-> FALSE,
                             initVx |-> 0, initVy |-> 0, initVz |-> 0]]

presetRelativistic(P) ==
    [P EXCEPT !.physics.useRelativity = TRUE, !.physics.c = Milli(20000),
              !.physics.baseCharge = Milli(-1000),
              !.physics.restMass = Milli(1000), !.physics.friction = 0, !.physics.k_e = 0,
              !.fields = [E_x_str |-> "0", E_y_str |-> "0", E_z_str |-> "0.5",
                          B_x_str |-> "0", B_y_str |-> "0", B_z_str |-> "5"],
              !.particles = [count |-> 1, randomCharge |-> FALSE,
                             initVx |-> Milli(18000), initVy |-> 0, initVz |-> 0]]

\* the presets with one particle; presetQuadrupole sets count = 20, beyond MaxCount
PresetNames == {"Cyclotron", "ExBDrift", "Relativistic"}

applyPreset(name, P) ==
    CASE name = "Cyclotron" -> presetCyclotron(P)
      [] name = "ExBDrift" -> presetExBDrift(P)
      [] OTHER -> presetRelativistic(P)

\* ------------------------------------------------------------------------
\* The whole of one frame's try block as a function, with the order in
\* which map() visits the particles as a parameter (the source visits them
\* in index order)
\* ------------------------------------------------------------------------
RECURSIVE mapInOrder(_, _, _, _, _, _, _)
mapInOrder(m, P, F, order, j, d, t) ==
    IF j > Len(order) \/ m.err # "none" THEN m
    ELSE mapInOrder(rk4Step(m, P, F, order[j], d, t), P, F, order, j + 1, d, t)

RECURSIVE applyFrom(_, _, _)
applyFrom(m, staged, i) ==
    IF i > Len(m.p) \/ m.err # "none" THEN m
    ELSE applyFrom(applyUpdate(m, staged, i), staged, i + 1)

applyAll(m) ==
    IF m.err # "none" THEN m
    ELSE applyFrom(m, [i \in 1..Len(m.p) |-> rk4StepResult], 1)

frameInOrder(m, P, F, order, d, t) == applyAll(mapInOrder(m, P, F, order, 1, d, t))

\* ------------------------------------------------------------------------
\* History record kept for stating properties
\* ------------------------------------------------------------------------
H(op) == [op |-> op, status |-> "done", ret |-> "none",
          preParticles |-> particles, preTotal |-> totalTimeSec,
          prePaused |-> isPaused, preFunctions |-> fieldFunctions,
          preTemp |-> temp, computed |-> <<>>, applied |-> {}]

\* ------------------------------------------------------------------------
\* simulation.js: Simulation
\* ------------------------------------------------------------------------
\* initialize(): a new ParticleSystem, the clock reset
\* a defective initialize(): the simulation clock is left running
initializeKeepingClock(P, randomize) ==
    /\ \E ps \in NewParticles(P, randomize) : particles' = ps
    /\ totalTimeSec' = totalTimeSec
    /\ lastTimeSec' = nowSec

initialize(P, randomize) ==
    /\ \E ps \in NewParticles(P, randomize) : particles' = ps
    /\ totalTimeSec' = 0
    /\ lastTimeSec' = nowSec

\* togglePause(), also called from the catch block of update()
togglePause ==
    /\ pc = "idle" /\ ops < MaxOps
    /\ isPaused' = ~isPaused
    /\ ops' = ops + 1
    /\ hist' = H("togglePause")
    /\ UNCHANGED <<PARAMS, fieldFunctions, temp, particles, totalTimeSec, lastTimeSec,
                   nowSec, fieldError, timeDisplay, alerts, pc, dt, k, stagedUpdates, frames>>

\* a defective early return of update(): the pause flag is not consulted
earlyReturnIgnoringPause(dt0) == dt0 <= 0

\* update(): if (this.isPaused || dt <= 0) return;
earlyReturn(dt0) == isPaused \/ dt0 <= 0

\* a defective clamp of update(): the scaled dt is used as it is
clampDtUnclamped(dt0) == FMul(dt0, PARAMS.physics.animationSpeed)

\* update(): dt = Math.min(dt * PARAMS.physics.animationSpeed, CONSTANTS.MAX_DT)
clampDt(dt0) == FMin(FMul(dt0, PARAMS.physics.animationSpeed), MAX_DT)

\* a defective refresh of update(): the time of the callback is stored on
\* running frames only
lastTimeRefreshedWhileRunning(now) == IF isPaused THEN lastTimeSec ELSE now

\* update(): this.lastTimeSec = nowSec, before the early return
lastTimeRefreshed(now) == now

\* update(), up to the try block
update ==
    /\ pc = "idle" /\ frames < MaxFrames
    /\ \E gap \in Gaps :
         LET now == nowSec + gap
             dt0 == now - lastTimeSec
             d == clampDt(dt0)
         IN  /\ nowSec' = now
             /\ lastTimeSec' = lastTimeRefreshed(now)
             /\ frames' = frames + 1
             /\ IF earlyReturn(dt0)
                THEN /\ hist' = [H("update") EXCEPT !.status = "returned"]
                     /\ UNCHANGED <<totalTimeSec, pc, dt, k, stagedUpdates>>
                ELSE /\ dt' = d
                     /\ totalTimeSec' = totalTimeSec + d
                     /\ pc' = "map"
                     /\ k' = 1
                     /\ stagedUpdates' = <<>>
                     /\ hist' = [H("update") EXCEPT !.status = "map"]
    /\ UNCHANGED <<PARAMS, fieldFunctions, temp, particles, isPaused, fieldError,
                   timeDisplay, alerts, ops>>

\* a defective catch block: it reports the error and leaves the loop running
catchBlockNoPause(h, where) ==
    /\ isPaused' = isPaused
    /\ alerts' = alerts + 1
    /\ pc' = "idle"
    /\ hist' = [h EXCEPT !.status = where]

\* the catch block of update(): togglePause(), console.error, alert; h is
\* the history record of the frame and where names the statement that threw
catchBlock(h, where) ==
    /\ isPaused' = ~isPaused
    /\ alerts' = alerts + 1
    /\ pc' = "idle"
    /\ hist' = [h EXCEPT !.status = where]

\* what update() does with the store m that rk4Step for particle k left:
\* the catch block if it threw, else the next element of map()
mapResult(m) ==
    /\ particles' = m.p
    /\ temp' = m.t
    /\ IF m.err # "none"
       THEN /\ catchBlock(hist, "thrown in map")
            /\ UNCHANGED <<k, stagedUpdates>>
       ELSE /\ stagedUpdates' = Append(stagedUpdates, rk4StepResult)
            /\ hist' = [hist EXCEPT !.computed =
                           Append(@, [dr |-> Get(m, rk4StepResult.dr),
                                      dv |-> Get(m, rk4StepResult.dv)])]
            /\ IF k < Len(particles)
               THEN k' = k + 1 /\ pc' = "map"
               ELSE k' = 1 /\ pc' = "apply"
            /\ UNCHANGED <<isPaused, alerts>>

\* one call of the map() callback: rk4Step for particle k
mapStep ==
    /\ pc = "map"
    /\ mapResult(rk4Step(Store, PARAMS, fieldFunctions, k, dt, totalTimeSec))
    /\ UNCHANGED <<PARAMS, fieldFunctions, totalTimeSec, lastTimeSec, nowSec, fieldError,
                   timeDisplay, dt, ops, frames>>

\* what update() does with the store m that the forEach() callback of
\* applyUpdates left for particle k
applyResult(m) ==
    /\ particles' = m.p
    /\ IF m.err # "none"
       THEN catchBlock([hist EXCEPT !.applied = @ \cup {k}], "thrown in apply")
       ELSE /\ hist' = [hist EXCEPT !.status = "apply", !.applied = @ \cup {k}]
            /\ IF k < Len(particles)
               THEN pc' = "apply"
               ELSE pc' = "ui"
            /\ UNCHANGED <<isPaused, alerts>>
    /\ k' = IF m.err = "none" /\ k < Len(particles) THEN k + 1 ELSE 1

\* one call of the forEach() callback of applyUpdates
applyStep ==
    /\ pc = "apply"
    /\ applyResult(applyUpdate(Store, stagedUpdates, k))
    /\ UNCHANGED <<PARAMS, fieldFunctions, temp, totalTimeSec, lastTimeSec, nowSec,
                   fieldError, timeDisplay, dt, stagedUpdates, ops, frames>>

\* Number.prototype.toFixed(2): the nearest multiple of 0.01, in hundredths
ToFixed2(n) == (n * 100 + Scale \div 2) \div Scale

\* updateUI() and the end of the try block.  The module does not import
\* infoFolder, so evaluating it (reached when useRelativity holds) throws
\* ReferenceError, which the catch block of update() handles.
updateUI ==
    /\ pc = "ui"
    /\ timeDisplay' = ToFixed2(totalTimeSec)
    /\ IF PARAMS.physics.useRelativity
       THEN catchBlock(hist, "thrown in updateUI")
       ELSE /\ hist' = [hist EXCEPT !.status = "completed"]
            /\ pc' = "idle"
            /\ UNCHANGED <<isPaused, alerts>>
    /\ UNCHANGED <<PARAMS, fieldFunctions, temp, particles, totalTimeSec, lastTimeSec, nowSec,
                   fieldError, dt, k, stagedUpdates, ops, frames>>

\* ------------------------------------------------------------------------
\* simulation.js: createGUI handlers
\* ------------------------------------------------------------------------
\* a defective controller handler: re-initializing also resumes the loop
paramChangeResuming(op, P) ==
    /\ pc = "idle" /\ ops < MaxOps
    /\ P # PARAMS
    /\ PARAMS' = P
    /\ initialize(P, FALSE)
    /\ isPaused' = FALSE
    /\ ops' = ops + 1
    /\ hist' = H(op)
    /\ UNCHANGED <<fieldFunctions, temp, nowSec, fieldError, timeDisplay, alerts,
                   pc, dt, k, stagedUpdates, frames>>

\* a controller whose onChange is () => simulation.initialize()
paramChange(op, P) ==
    /\ pc = "idle" /\ ops < MaxOps
    /\ P # PARAMS
    /\ PARAMS' = P
    /\ initialize(P, FALSE)
    /\ ops' = ops + 1
    /\ hist' = H(op)
    /\ UNCHANGED <<fieldFunctions, temp, isPaused, nowSec, fieldError, timeDisplay, alerts,
                   pc, dt, k, stagedUpdates, frames>>

setUseRelativity ==
    paramChange("useRelativity", [PARAMS EXCEPT !.physics.useRelativity = ~@])

setC == \E v \in CValues : paramChange("c", [PARAMS EXCEPT !.physics.c = v])

setBaseCharge ==
    \E v \in BaseChargeValues : paramChange("baseCharge", [PARAMS EXCEPT !.physics.baseCharge = v])

setRestMass ==
    \E v \in RestMassValues : paramChange("restMass", [PARAMS EXCEPT !.physics.restMass = v])

setFriction ==
    \E v \in FrictionValues : paramChange("friction", [PARAMS EXCEPT !.physics.friction = v])

setKe == \E v \in KeValues : paramChange("k_e", [PARAMS EXCEPT !.physics.k_e = v])

setCount == \E v \in CountValues : paramChange("count", [PARAMS EXCEPT !.particles.count = v])

setRandomCharge ==
    paramChange("randomCharge", [PARAMS EXCEPT !.particles.randomCharge = ~@])

setInitVx ==
    \E v \in InitVxValues : paramChange("initVx", [PARAMS EXCEPT !.particles.initVx = v])

\* the animation-speed controller has no onChange
setAnimationSpeed ==
    /\ pc = "idle" /\ ops < MaxOps
    /\ \E v \in AnimationSpeedValues :
         /\ v # PARAMS.physics.animationSpeed
         /\ PARAMS' = [PARAMS EXCEPT !.physics.animationSpeed = v]
    /\ ops' = ops + 1
    /\ hist' = H("animationSpeed")
    /\ UNCHANGED <<fieldFunctions, temp, particles, isPaused, totalTimeSec, lastTimeSec,
                   nowSec, fieldError, timeDisplay, alerts, pc, dt, k, stagedUpdates, frames>>

\* a controller of the Particle Charges folder, bound to p.q
setCharge ==
    /\ pc = "idle" /\ ops < MaxOps
    /\ \E i \in 1..Len(particles), v \in ChargeValues :
         /\ v # particles[i].q
         /\ particles' = [particles EXCEPT ![i].q = v]
    /\ ops' = ops + 1
    /\ hist' = H("charge")
    /\ UNCHANGED <<PARAMS, fieldFunctions, temp, isPaused, totalTimeSec, lastTimeSec,
                   nowSec, fieldError, timeDisplay, alerts, pc, dt, k, stagedUpdates, frames>>

\* onFieldChange: the controller has stored the new string in PARAMS.fields
onFieldChange ==
    /\ pc = "idle" /\ ops < MaxOps
    /\ \E key \in EditKeys, str \in EditExprs :
         /\ str # PARAMS.fields[key]
         /\ LET P == [PARAMS EXCEPT !.fields[key] = str]
                success == compileFieldFunctions(P, fieldFunctions)
            IN  /\ PARAMS' = P
                /\ fieldFunctions' = success.F
                /\ hist' = [H("onFieldChange") EXCEPT !.ret = success.ret]
                /\ IF Truthy(success.ret)
                   THEN /\ fieldError' = "none"
                        /\ initialize(P, FALSE)
                   ELSE /\ fieldError' = "block"
                        /\ UNCHANGED <<particles, totalTimeSec, lastTimeSec>>
    /\ ops' = ops + 1
    /\ UNCHANGED <<temp, isPaused, nowSec, timeDisplay, alerts, pc, dt, k, stagedUpdates,
                   frames>>

\* presetWrapper.run(presetFn)
presetRun ==
    /\ pc = "idle" /\ ops < MaxOps
    /\ \E name \in PresetNames :
         /\ PARAMS' = applyPreset(name, PARAMS)
         /\ initialize(applyPreset(name, PARAMS), FALSE)
         /\ hist' = H(name)
    /\ ops' = ops + 1
    /\ UNCHANGED <<fieldFunctions, temp, isPaused, nowSec, fieldError, timeDisplay, alerts,
                   pc, dt, k, stagedUpdates, frames>>

\* Randomize Velocities
randomizeVelocities ==
    /\ pc = "idle" /\ ops < MaxOps
    /\ initialize(PARAMS, TRUE)
    /\ ops' = ops + 1
    /\ hist' = H("randomizeVelocities")
    /\ UNCHANGED <<PARAMS, fieldFunctions, temp, isPaused, nowSec, fieldError, timeDisplay,
                   alerts, pc, dt, k, stagedUpdates, frames>>

\* Reset (R)
reset ==
    /\ pc = "idle" /\ ops < MaxOps
    /\ initialize(PARAMS, FALSE)
    /\ ops' = ops + 1
    /\ hist' = H("reset")
    /\ UNCHANGED <<PARAMS, fieldFunctions, temp, isPaused, nowSec, fieldError, timeDisplay,
                   alerts, pc, dt, k, stagedUpdates, frames>>

\* ------------------------------------------------------------------------
\* Specification
\* ------------------------------------------------------------------------
\* the state when the page has loaded: createGUI has run its initial
\* compile and the Simulation has been constructed
Init ==
    /\ PARAMS = PARAMS0
    /\ fieldFunctions = compileFieldFunctions(PARAMS0, fieldFunctions0).F
    /\ temp = temp0
    /\ particles \in NewParticles(PARAMS0, FALSE)
    /\ isPaused = FALSE
    /\ totalTimeSec = 0
    /\ lastTimeSec = 0
    /\ nowSec = 0
    /\ fieldError = "none"
    /\ timeDisplay = 0
    /\ alerts = 0
    /\ pc = "idle"
    /\ dt = 0
    /\ k = 1
    /\ stagedUpdates = <<>>
    /\ hist = [op |-> "init", status |-> "done", ret |-> "true",
               preParticles |-> <<>>, preTotal |-> 0, prePaused |-> FALSE,
               preFunctions |-> fieldFunctions0,
               preTemp |-> temp, computed |-> <<>>, applied |-> {}]
    /\ ops = 0
    /\ frames = 0

Next ==
    \/ update \/ mapStep \/ applyStep \/ updateUI
    \/ togglePause \/ reset \/ randomizeVelocities \/ presetRun \/ onFieldChange
    \/ setUseRelativity \/ setC \/ setBaseCharge \/ setRestMass \/ setFriction \/ setKe
    \/ setCount \/ setRandomCharge \/ setInitVx \/ setAnimationSpeed \/ setCharge

Spec == Init /\ [][Next]_vars

\* the page loaded with a configuration whose rest mass is 0: PARAMS is a
\* plain exported object, neither config.js nor initialize() validates it,
\* and only the GUI slider (0.01..10) confines later edits
InitZeroMass ==
    /\ PARAMS = [PARAMS0 EXCEPT !.physics.restMass = 0]
    /\ fieldFunctions = compileFieldFunctions(PARAMS0, fieldFunctions0).F
    /\ temp = temp0
    /\ particles \in NewParticles(PARAMS, FALSE)
    /\ isPaused = FALSE
    /\ totalTimeSec = 0
    /\ lastTimeSec = 0
    /\ nowSec = 0
    /\ fieldError = "none"
    /\ timeDisplay = 0
    /\ alerts = 0
    /\ pc = "idle"
    /\ dt = 0
    /\ k = 1
    /\ stagedUpdates = <<>>
    /\ hist = [op |-> "init", status |-> "done", ret |-> "true",
               preParticles |-> <<>>, preTotal |-> 0, prePaused |-> FALSE,
               preFunctions |-> fieldFunctions0,
               preTemp |-> temp, computed |-> <<>>, applied |-> {}]
    /\ ops = 0
    /\ frames = 0

SpecZeroMass == InitZeroMass /\ [][Next]_vars

\* ------------------------------------------------------------------------
\* computeCoulombForce as a function of two particles: the inputs are
\* drawn in the initial state and the action is one call
\* ------------------------------------------------------------------------
\* k_e, charges (baseCharge times a random factor when randomCharge is set)
\* and positions the function is applied to; the separations are 0, below
\* SOFTENING (0.05), just above it (0.3), and of the order of the initial radius
CoulombKeValues == {Milli(1000), Milli(333)}
CoulombChargeValues == {Milli(1000), Milli(-1000), Milli(333), Milli(1250)}
CoulombFirstPositions == {Zero3, Vec(Milli(2500), 0, 0)}
CoulombSecondPositions ==
    {Zero3, Vec(0, Milli(30), Milli(40)), Vec(Milli(300), 0, 0), Vec(One, One, 0),
     Vec(Milli(-2500), 0, 0)}

InitCoulomb ==
    /\ \E ke \in CoulombKeValues :
          PARAMS = [PARAMS0 EXCEPT !.physics.k_e = ke, !.particles.count = 2]
    /\ fieldFunctions = compileFieldFunctions(PARAMS0, fieldFunctions0).F
    /\ temp = temp0
    /\ \E r1 \in CoulombFirstPositions, r2 \in CoulombSecondPositions,
          q1, q2 \in CoulombChargeValues :
          particles = <<Particle(r1, Zero3, q1), Particle(r2, Zero3, q2)>>
    /\ isPaused = FALSE
    /\ totalTimeSec = 0
    /\ lastTimeSec = 0
    /\ nowSec = 0
    /\ fieldError = "none"
    /\ timeDisplay = 0
    /\ alerts = 0
    /\ pc = "idle"
    /\ dt = 0
    /\ k = 1
    /\ stagedUpdates = <<>>
    /\ hist = [op |-> "init", status |-> "done", ret |-> "true",
               preParticles |-> <<>>, preTotal |-> 0, prePaused |-> FALSE,
               preFunctions |-> fieldFunctions0,
               preTemp |-> temp, computed |-> <<>>, applied |-> {}]
    /\ ops = 0
    /\ frames = 0

\* one call computeCoulombForce(i, particles); it returns temp.vec3
coulombCall ==
    /\ \E i \in 1..Len(particles) :
         /\ temp' = computeCoulombForce(Store, PARAMS, i).t
         /\ k' = i
    /\ hist' = H("computeCoulombForce")
    /\ UNCHANGED <<PARAMS, fieldFunctions, particles, isPaused, totalTimeSec, lastTimeSec,
                   nowSec, fieldError, timeDisplay, alerts, pc, dt, stagedUpdates, ops, frames>>

NextCoulomb == coulombCall

SpecCoulomb == InitCoulomb /\ [][NextCoulomb]_vars

\* ------------------------------------------------------------------------
\* The cyclotron scenario: one particle with q = 1, m = 1, v0 = (1, 0, 0) in
\* B = (0, 0, 1), E = 0, friction = 0, classical mode, stepped 628 times
\* with dt = 0.01
\* ------------------------------------------------------------------------
CyclotronSteps == 628

CyclotronParams ==
    [presetCyclotron(PARAMS0) EXCEPT !.particles.initVx = One]

InitCyclotron ==
    /\ PARAMS = CyclotronParams
    /\ fieldFunctions = compileFieldFunctions(CyclotronParams, fieldFunctions0).F
    /\ temp = temp0
    /\ particles = <<Particle(Zero3, Vec(One, 0, 0), One)>>
    /\ isPaused = FALSE
    /\ totalTimeSec = 0
    /\ lastTimeSec = 0
    /\ nowSec = 0
    /\ fieldError = "none"
    /\ timeDisplay = 0
    /\ alerts = 0
    /\ pc = "idle"
    /\ dt = Milli(10)
    /\ k = 1
    /\ stagedUpdates = <<>>
    /\ hist = [op |-> "init", status |-> "done", ret |-> "true",
               preParticles |-> <<>>, preTotal |-> 0, prePaused |-> FALSE,
               preFunctions |-> fieldFunctions0,
               preTemp |-> temp, computed |-> <<>>, applied |-> {}]
    /\ ops = 0
    /\ frames = 0

\* one step of the scenario: the clock advanced by dt, then the try block of
\* update(): rk4Step for the particle and applyUpdates
cyclotronStep ==
    /\ frames < CyclotronSteps
    /\ LET m == frameInOrder(Store, PARAMS, fieldFunctions, <<1>>, dt, totalTimeSec + dt)
       IN  /\ m.err = "none"
           /\ particles' = m.p
           /\ temp' = m.t
    /\ totalTimeSec' = totalTimeSec + dt
    /\ frames' = frames + 1
    /\ hist' = [H("step") EXCEPT !.status = "completed"]
    /\ UNCHANGED <<PARAMS, fieldFunctions, isPaused, lastTimeSec, nowSec, fieldError,
                   timeDisplay, alerts, pc, dt, k, stagedUpdates, ops>>

NextCyclotron == cyclotronStep

SpecCyclotron == InitCyclotron /\ [][NextCyclotron]_vars

\* ------------------------------------------------------------------------
\* Properties
\* ------------------------------------------------------------------------
\* position and velocity of every particle of an array
RV(ps) == [i \in 1..Len(ps) |-> [r |-> ps[i].r, v |-> ps[i].v]]

\* position, velocity and charge of every particle of an array
RVQ(ps) == [i \in 1..Len(ps) |-> [r |-> ps[i].r, v |-> ps[i].v, q |-> ps[i].q]]

\* points and times at which two field functions are compared
ProbePoints == {Vec(x, y, 0) : x, y \in {-One, 0, One}}
ProbeTimes == {0, One}

\* two compiled field functions behave alike: they throw at the same
\* arguments and return the same values elsewhere
SameFunction(f, g) ==
    \A r \in ProbePoints, t \in ProbeTimes :
        /\ FnThrows(f, r, t) = FnThrows(g, r, t)
        /\ ~FnThrows(f, r, t) => FnValue(f, r, t) = FnValue(g, r, t)

\* the last handler was a frame that ran to the end of its try block
FrameCompleted == pc = "idle" /\ hist.op = "update" /\ hist.status = "completed"

\* the store at the start of the frame the history record describes
PreStore == [p |-> hist.preParticles, t |-> hist.preTemp, err |-> "none"]

\* C1: after a frame that completes without an exception, every particle's
\* position and velocity are its pre-frame position and velocity plus the
\* delta rk4Step computed for that particle itself.
C1_OwnDeltaApplied ==
    FrameCompleted =>
        \A i \in 1..Len(particles) :
            /\ particles[i].r = VAdd(hist.preParticles[i].r, hist.computed[i].dr)
            /\ particles[i].v = VAdd(hist.preParticles[i].v, hist.computed[i].dv)

\* C2: whatever the order in which the deltas of a frame are computed, the
\* frame leaves every particle with the same position and velocity (here:
\* the ones the frame, which computes them in index order, has left).
C2_OrderIndependent ==
    FrameCompleted =>
        \A order \in Perms(Len(particles)) :
            RV(frameInOrder(PreStore, PARAMS, fieldFunctions, order, dt, totalTimeSec).p)
                = RV(particles)

\* the stores between the statements "k1".."Combine" of the call of rk4Step
\* that map() is about to make for particle k
StageStores ==
    LET m1 == rk4K1(Store, PARAMS, fieldFunctions, k, dt, totalTimeSec)
        m2 == rk4K2(m1, PARAMS, fieldFunctions, k, dt, totalTimeSec)
        m3 == rk4K3(m2, PARAMS, fieldFunctions, k, dt, totalTimeSec)
        m4 == rk4K4(m3, PARAMS, fieldFunctions, k, dt, totalTimeSec)
        m5 == rk4Combine(m4)
    IN  {m1, m2, m3, m4, m5}

\* C3: from the start of a running frame until the delta of the last
\* particle has been computed, position, velocity and charge of every
\* particle are the ones the frame started with -- between two calls of
\* rk4Step and between the stages inside a call.
C3_NoWriteWhileComputing ==
    /\ (hist.op = "update" /\ hist.status = "map") => RVQ(particles) = RVQ(hist.preParticles)
    /\ pc = "map" => \A m \in StageStores : RVQ(m.p) = RVQ(hist.preParticles)

\* C3 witness: all deltas of a frame with two particles are computed, one of
\* them is not zero, and nothing has been applied yet
C3_Witness ==
    /\ pc = "apply" /\ k = 1 /\ hist.status = "map"
    /\ Len(particles) >= 2
    /\ Len(hist.computed) = Len(particles)
    /\ \E i \in 1..Len(particles) : hist.computed[i].dr # Zero3 /\ hist.computed[i].dv # Zero3

\* C4: a frame in which the computation of a particle's delta throws ends
\* paused, with every particle at its pre-frame position and velocity.
C4_ThrowWhileComputing ==
    (hist.op = "update" /\ hist.status = "thrown in map") =>
        /\ pc = "idle"
        /\ isPaused
        /\ RV(particles) = RV(hist.preParticles)

\* C4 witness: a field function threw for the second particle, after a
\* delta that is not zero had been computed for the first
C4_Witness ==
    /\ hist.op = "update" /\ hist.status = "thrown in map"
    /\ Len(hist.computed) = 1 /\ Len(particles) = 2
    /\ hist.computed[1].dr # Zero3

\* C5: a frame that throws in its commit phase (applyUpdates, updateUI) has
\* applied the delta of no particle or of every particle.
C5_CommitAllOrNothing ==
    (hist.op = "update" /\ hist.status \in {"thrown in apply", "thrown in updateUI"}) =>
        \/ hist.applied = {}
        \/ hist.applied = 1..Len(particles)

\* C5 witness: updateUI threw in a frame with two particles, after
\* applyUpdates had advanced both
C5_Witness ==
    /\ hist.op = "update" /\ hist.status = "thrown in updateUI"
    /\ Len(particles) = 2
    /\ hist.applied = {1, 2}
    /\ RV(particles) # RV(hist.preParticles)

\* C6: when compileFieldFunctions reports failure, each of the six installed
\* field functions is the function it was before the call.
C6_FailedCompileInstallsNothing ==
    (hist.op = "onFieldChange" /\ hist.ret = "errorObject") =>
        \A n \in 1..6 : SameFunction(fieldFunctions[FnNames[n]], hist.preFunctions[FnNames[n]])

\* C7: when a field-expression edit fails to compile, the handler flags the
\* error and does not re-initialize: positions, velocities and totalTimeSec
\* are the ones before the edit.
C7_FailedEditKeepsSimulation ==
    (hist.op = "onFieldChange" /\ hist.ret = "errorObject") =>
        /\ fieldError = "block"
        /\ RV(particles) = RV(hist.preParticles)
        /\ totalTimeSec = hist.preTotal

\* all six current strings compile and evaluate at the probe points
StringsValid ==
    \A n \in 1..6 :
        /\ ~SyntaxError(PARAMS.fields[FieldKeys[n]])
        /\ \A r \in ProbePoints, t \in ProbeTimes : ~FnThrows(PARAMS.fields[FieldKeys[n]], r, t)

\* C8: whenever the six current field-expression strings are all valid, the
\* installed field functions are the ones compiled from them.
C8_FunctionsNeverStale ==
    StringsValid =>
        \A n \in 1..6 : SameFunction(fieldFunctions[FnNames[n]], PARAMS.fields[FieldKeys[n]])

\* C9: when compileFieldFunctions reports success, none of the six
\* installed field functions throws at (0, 0, 0, 0).
C9_SuccessMeansAllEvaluate ==
    hist.ret = "true" => \A n \in 1..6 : ~FnThrows(fieldFunctions[FnNames[n]], Zero3, 0)

\* C10: in relativistic mode, once a frame has committed its step, the
\* speed of every particle is below c.
C10_SpeedBelowC ==
    (/\ hist.op = "update"
     /\ hist.applied = 1..Len(particles)
     /\ PARAMS.physics.useRelativity) =>
        \A i \in 1..Len(particles) :
            FLess(VLengthSq(particles[i].v), FMul(PARAMS.physics.c, PARAMS.physics.c))

\* the values of the installed field functions at (r, t)
EAt(F, r, t) == Vec(FnValue(F.Ex, r, t), FnValue(F.Ey, r, t), FnValue(F.Ez, r, t))
BAt(F, r, t) == Vec(FnValue(F.Bx, r, t), FnValue(F.By, r, t), FnValue(F.Bz, r, t))

\* the store the first call of computeAcceleration in rk4Step for particle
\* k leaves: a(p.v, p.r, t)
FirstAcceleration ==
    a(Store, PARAMS, fieldFunctions, k, PRef(k, "v"), PRef(k, "r"), totalTimeSec)

\* (q / (gamma m)) (E + v x B - v (v.E) / c^2) for particle k of the state
RelativisticLorentz ==
    LET v == particles[k].v
        E == EAt(fieldFunctions, particles[k].r, totalTimeSec)
        B == BAt(fieldFunctions, particles[k].r, totalTimeSec)
        cSq == FMul(PARAMS.physics.c, PARAMS.physics.c)
        gamma == FDiv(One, FSqrt(FSub(One, FDiv(VLengthSq(v), cSq))))
    IN  VScale(VSub(VAdd(E, VCross(v, B)), VScale(v, FDiv(VDot(v, E), cSq))),
               FDiv(particles[k].q, FMul(gamma, PARAMS.physics.restMass)))

\* C11: in relativistic mode, for a particle slower than c, the acceleration
\* computeAcceleration returns is (q / (gamma m)) (E + v x B - v (v.E) / c^2).
C11_RelativisticAcceleration ==
    (/\ pc = "map"
     /\ PARAMS.physics.useRelativity
     /\ FLess(VLengthSq(particles[k].v), FMul(PARAMS.physics.c, PARAMS.physics.c))
     /\ FirstAcceleration.err = "none") =>
        Get(FirstAcceleration, aResult) = RelativisticLorentz

\* every installed field function is the constant 0
ZeroFields == \A n \in 1..6 : fieldFunctions[FnNames[n]] \in {"0", "0.0"}

\* two numbers agree up to rounding: within 2 % of b plus two grid units
Near(n, b) == IsFinite(n) /\ IsFinite(b) /\ Abs(n - b) * 100 <= Abs(b) * 2 + 200

\* two vectors agree up to rounding
VNear(u, w) == Near(u.x, w.x) /\ Near(u.y, w.y) /\ Near(u.z, w.z)

\* C12: in classical mode with E = B = 0, friction = 0 and k_e = 0, a running
\* frame with step dt leaves every particle's velocity unchanged and moves
\* the particle by v dt (so n frames move it by v0 (dt_1 + ... + dt_n)).
C12_StraightLine ==
    (/\ FrameCompleted
     /\ ~PARAMS.physics.useRelativity
     /\ PARAMS.physics.friction = 0 /\ PARAMS.physics.k_e = 0
     /\ ZeroFields) =>
        \A i \in 1..Len(particles) :
            /\ particles[i].v = hist.preParticles[i].v
            /\ VNear(particles[i].r,
                     VAddScaled(hist.preParticles[i].r, hist.preParticles[i].v, dt))

\* C13: a frame callback that finds the loop paused returns at once: no
\* particle's position, velocity or gamma, no scratch vector and not
\* totalTimeSec is changed, and no step is started.
C13_PausedFrameChangesNothing ==
    (hist.op = "update" /\ hist.prePaused) =>
        /\ hist.status = "returned"
        /\ pc = "idle"
        /\ particles = hist.preParticles
        /\ temp = hist.preTemp
        /\ totalTimeSec = hist.preTotal
        /\ isPaused

\* C13 witness: a frame callback arrived, after a wall-clock gap, while the
\* loop was paused
C13_Witness ==
    /\ hist.op = "update" /\ hist.prePaused
    /\ nowSec > 0
    /\ hist.status = "returned"

\* C14: every dt handed to the integrator and added to the clock satisfies
\* 0 < dt <= MAX_DT, whatever the wall-clock gap between two frame callbacks
\* and whatever positive animation speed is set.
C14_DtClamped ==
    (pc \in {"map", "apply"} /\ PARAMS.physics.animationSpeed > 0) =>
        /\ 0 < dt /\ dt <= MAX_DT
        /\ totalTimeSec - hist.preTotal = dt

\* C14 witness: a frame after a two-second gap runs its step with dt cut down
\* to MAX_DT
C14_Witness ==
    /\ pc = "map" /\ nowSec >= Milli(2000) /\ dt = MAX_DT
    /\ hist.op = "update" /\ ~hist.prePaused

\* the step taken was a GUI handler that called simulation.initialize()
Reinitialized ==
    /\ ops' = ops + 1
    /\ hist'.op \notin {"togglePause", "animationSpeed", "charge"}
    /\ hist'.op = "onFieldChange" => Truthy(hist'.ret)

\* C15: totalTimeSec grows by exactly the clamped dt when a running frame
\* reaches its step and keeps that value through the rest of the frame, also
\* when the frame ends in the catch block; it never decreases except in a
\* re-initialization, and it is 0 right after every re-initialization.
C15_ClockMonotone ==
    [][ /\ Reinitialized => totalTimeSec' = 0
        /\ ~Reinitialized => totalTimeSec' >= totalTimeSec
        /\ (pc = "idle" /\ pc' = "map") => (dt' > 0 /\ totalTimeSec' = totalTimeSec + dt')
        /\ pc # "idle" => totalTimeSec' = totalTimeSec ]_vars

\* C15 witness: a frame that ended in the catch block has advanced the clock
\* by its dt
C15_Witness ==
    /\ hist.op = "update"
    /\ hist.status \in {"thrown in map", "thrown in apply", "thrown in updateUI"}
    /\ dt > 0 /\ totalTimeSec = hist.preTotal + dt

\* the statuses of a frame that ended in the catch block of update()
Thrown == {"thrown in map", "thrown in apply", "thrown in updateUI"}

\* the step taken ended a frame in the catch block of update()
EndedInCatch == pc # "idle" /\ pc' = "idle" /\ hist'.status \in Thrown

\* the step taken was a GUI handler other than the pause toggle
HandlerOtherThanToggle == ops' = ops + 1 /\ hist'.op # "togglePause"

\* C16: the pause flag changes only in a user toggle or in the catch block of
\* a step; the catch block always leaves the loop paused; re-initialization,
\* parameter edits, field edits and presets leave the flag as it was.
C16_PauseChangesOnlyByToggleOrException ==
    [][ /\ isPaused' # isPaused => (hist'.op = "togglePause" \/ EndedInCatch)
        /\ EndedInCatch => isPaused'
        /\ HandlerOtherThanToggle => isPaused' = isPaused ]_vars

\* C16 witness: a step threw and paused the loop, and a later handler that
\* re-initialized the simulation left it paused
C16_Witness ==
    /\ alerts > 0 /\ isPaused /\ hist.prePaused
    /\ hist.op \notin {"init", "update", "togglePause", "animationSpeed", "charge"}
    /\ totalTimeSec = 0 /\ hist.preTotal > 0

\* every particle's position and velocity is finite
StateFinite == \A i \in 1..Len(particles) : VFinite(particles[i].r) /\ VFinite(particles[i].v)

NonFiniteFieldAtStart ==
    \E i \in 1..Len(hist.preParticles) :
        LET r0 == hist.preParticles[i].r
        IN  /\ \A n \in 1..6 : ~FnThrows(fieldFunctions[FnNames[n]], r0, totalTimeSec)
            /\ \/ ~VFinite(EAt(fieldFunctions, r0, totalTimeSec))
               \/ ~VFinite(BAt(fieldFunctions, r0, totalTimeSec))

\* C18: a frame in which a field function returns Infinity or NaN ends with
\* the loop paused and every particle's position and velocity as they were
\* at the start of the frame; no non-finite value is committed.
C18_NonFiniteFieldPauses ==
    (hist.op = "update" /\ hist.status # "returned" /\ NonFiniteFieldAtStart) =>
        /\ StateFinite
        /\ pc = "idle" => (isPaused /\ RV(particles) = RV(hist.preParticles))

\* const cSq = c * c, for the current parameters
CSq == FMul(PARAMS.physics.c, PARAMS.physics.c)

\* const vSq = Math.min(v.lengthSq(), cSq - C_SQUARED_EPSILON), for a velocity v
VSqUsed(v) == FMin(VLengthSq(v), FSub(CSq, C_SQUARED_EPSILON))

\* the velocities of all four stages of the step for particle k are finite:
\* v is, and so are the stage accelerations the later stages add to it
StageVelocitiesFinite ==
    /\ VFinite(particles[k].v)
    /\ \A m \in StageStores : \A n \in {"k1v", "k2v", "k3v"} : VFinite(m.t[n])

\* a Lorentz factor that is a finite number not below 1
GammaValid(g) == IsFinite(g) /\ g >= One

AltParams ==
    {[PARAMS EXCEPT !.physics.friction = f, !.physics.k_e = ke] :
        f \in {0, Milli(100), Milli(1000)}, ke \in {0, Milli(1000), Milli(10000)}}

\* positions and charges the other particles are moved and recharged to
AltPositions == {Vec(0, 0, 0), Vec(Milli(2500), One, 0), Vec(-One, Milli(-500), One)}
AltCharges == {Milli(-1000), 0, Milli(5000)}

\* particle arrays that differ from the current one at most in position and
\* charge of the particles other than k
AltParticles ==
    {ps \in [1..Len(particles) ->
                {[particles[j] EXCEPT !.r = r1, !.q = q1] :
                    j \in 1..Len(particles), r1 \in AltPositions, q1 \in AltCharges}
                \cup {particles[j] : j \in 1..Len(particles)}] :
        /\ ps[k] = particles[k]
        /\ \A j \in 1..Len(particles) :
              /\ ps[j].v = particles[j].v
              /\ ps[j].gamma = particles[j].gamma}

\* the acceleration a(v, r, t) of particle k under parameters P and particles ps:
\* whether the call threw, and the vector it returned
AccelerationOf(P, ps) ==
    LET m == a([p |-> ps, t |-> temp, err |-> "none"], P, fieldFunctions, k,
               PRef(k, "v"), PRef(k, "r"), totalTimeSec)
    IN  [err |-> m.err, value |-> Get(m, aResult)]

\* C20: in relativistic mode the acceleration of particle k is the same for
\* every friction coefficient, every k_e and every position and charge of
\* the other particles.
C20_RelativisticIgnoresDragAndCoulomb ==
    (pc = "map" /\ PARAMS.physics.useRelativity) =>
        \A P \in AltParams, ps \in AltParticles :
            AccelerationOf(P, ps) = AccelerationOf(PARAMS, particles)

\* C20 witness: a relativistic step for one of two particles, in a state
\* where the same change of friction, k_e and the other particle would change
\* the classical acceleration
C20_Witness ==
    /\ pc = "map" /\ PARAMS.physics.useRelativity /\ Len(particles) = 2
    /\ AccelerationOf(PARAMS, particles).err = "none"
    /\ AccelerationOf(PARAMS, particles).value # Zero3
    /\ \E P \in AltParams, ps \in AltParticles :
          AccelerationOf([P EXCEPT !.physics.useRelativity = FALSE], ps)
              # AccelerationOf([PARAMS EXCEPT !.physics.useRelativity = FALSE], particles)

\* Math.max(|ri - rj|^2, SOFTENING^2) ^ -1.5
InvDist3(ri, rj) == FPowM15(FMax(VLengthSq(VSub(ri, rj)), FMul(SOFTENING, SOFTENING)))

\* the term of particle j in the Coulomb sum for particle i:
\* k_e qi qj (ri - rj) / max(|ri - rj|^2, SOFTENING^2)^(3/2)
CoulombTerm(P, ps, i, j) ==
    VScale(VSub(ps[i].r, ps[j].r),
           FMul(FMul(FMul(P.physics.k_e, ps[i].q), ps[j].q), InvDist3(ps[i].r, ps[j].r)))

\* the softened Coulomb sum for particle i over the particles j..Len(ps), i excluded
RECURSIVE CoulombSumFrom(_, _, _, _)
CoulombSumFrom(P, ps, i, j) ==
    IF j > Len(ps) THEN Zero3
    ELSE IF j = i THEN CoulombSumFrom(P, ps, i, j + 1)
    ELSE VAdd(CoulombTerm(P, ps, i, j), CoulombSumFrom(P, ps, i, j + 1))

\* (q (E + v x B) - friction v + F_c) (1 / restMass) for particle k of the state
ClassicalAcceleration ==
    LET v == particles[k].v
        E == EAt(fieldFunctions, particles[k].r, totalTimeSec)
        B == BAt(fieldFunctions, particles[k].r, totalTimeSec)
        lorentz == VScale(VAdd(E, VCross(v, B)), particles[k].q)
        drag == VScale(v, FNeg(PARAMS.physics.friction))
        coulomb == CoulombSumFrom(PARAMS, particles, k, 1)
    IN  VScale(VAdd(VAdd(lorentz, drag), coulomb), FDiv(One, PARAMS.physics.restMass))

\* C21: in classical mode the first acceleration evaluation of a step, whose
\* arguments are the particle's own r and v, returns
\* (q (E + v x B) - friction v + F_c) / restMass with F_c the softened
\* Coulomb sum over the other particles, and sets the particle's gamma to 1.
C21_ClassicalAcceleration ==
    (pc = "map" /\ ~PARAMS.physics.useRelativity /\ FirstAcceleration.err = "none") =>
        /\ Get(FirstAcceleration, aResult) = ClassicalAcceleration
        /\ FirstAcceleration.p[k].gamma = One

\* C21 witness: a classical step for one of two charged particles with
\* k_e > 0 in a magnetic field: the Lorentz and the Coulomb term are both
\* not zero
C21_Witness ==
    /\ pc = "map" /\ ~PARAMS.physics.useRelativity /\ FirstAcceleration.err = "none"
    /\ Len(particles) = 2 /\ PARAMS.physics.k_e > 0
    /\ CoulombSumFrom(PARAMS, particles, k, 1) # Zero3
    /\ VCross(particles[k].v, BAt(fieldFunctions, particles[k].r, totalTimeSec)) # Zero3
    /\ Get(FirstAcceleration, aResult) # Zero3

VNeg(u) == Vec(FNeg(u.x), FNeg(u.y), FNeg(u.z))

\* the vector a call computeCoulombForce(i, particles) returns in the state
CoulombForceOn(i) == Get(computeCoulombForce(Store, PARAMS, i), TRef("vec3"))

\* the product k_e * pi.q * pj.q as the call for particle i evaluates it
ChargeProduct(i, j) == FMul(FMul(PARAMS.physics.k_e, particles[i].q), particles[j].q)

\* a call of computeCoulombForce for particle k of two has just returned
CoulombReturned == hist.op = "computeCoulombForce" /\ Len(particles) = 2

trajectoryData == [i \in 1..Len(particles) |-> <<>>]

AltTemps ==
    {temp0,
     [n \in TempNames |-> Vec(One, Milli(-2000), Milli(3000))],
     [n \in TempNames |-> Vec(Milli(-500), Milli(250), 5 * One)]}

\* the frame the history record describes, run again from the same
\* particles with the scratch vectors holding T: whether it threw, and the
\* positions and velocities it leaves
FrameRerun(T) ==
    LET m == frameInOrder([p |-> hist.preParticles, t |-> T, err |-> "none"],
                          PARAMS, fieldFunctions, [i \in 1..Len(hist.preParticles) |-> i],
                          dt, totalTimeSec)
    IN  [err |-> m.err, rv |-> RV(m.p)]

\* the outcome of rk4Step for particle k when the scratch vectors hold T:
\* the error it threw, or the delta it returned
DeltaWith(T) ==
    LET m == rk4Step([p |-> particles, t |-> T, err |-> "none"],
                     PARAMS, fieldFunctions, k, dt, totalTimeSec)
    IN  IF m.err # "none" THEN [err |-> m.err, dr |-> Zero3, dv |-> Zero3]
        ELSE [err |-> m.err, dr |-> Get(m, rk4StepResult.dr), dv |-> Get(m, rk4StepResult.dv)]

\* C24: a frame is a function of the particles, the parameters, the field
\* functions, dt and t alone: run again from the same inputs with other
\* contents of the scratch vectors, every rk4Step call returns the same
\* delta and the frame leaves the same positions and velocities.
C24_ScratchCarriesNothing ==
    /\ pc = "map" => \A T \in AltTemps : DeltaWith(T) = DeltaWith(temp)
    /\ (hist.op = "update" /\ pc = "idle" /\ hist.status \in {"completed", "thrown in updateUI"}) =>
          \A T \in AltTemps : FrameRerun(T).err = "none" /\ FrameRerun(T).rv = RV(particles)
    /\ (hist.op = "update" /\ pc = "idle" /\ hist.status = "thrown in map") =>
          \A T \in AltTemps : FrameRerun(T).err # "none" /\ FrameRerun(T).rv = RV(particles)

\* C24 witness: the second frame of a run has completed and moved two
\* particles; it started with the scratch vectors as the first frame left them
C24_Witness ==
    /\ FrameCompleted /\ Len(particles) = 2
    /\ hist.preTemp # temp0 /\ hist.preTemp \notin AltTemps
    /\ RV(particles) # RV(hist.preParticles)

\* the square of the distance of particle 1 from the origin, where the
\* scenario starts it, in squares of grid units
DisplacementSq ==
    particles[1].r.x * particles[1].r.x + particles[1].r.y * particles[1].r.y
        + particles[1].r.z * particles[1].r.z

\* C25: after the 628 steps of the cyclotron scenario the particle is
\* closer than 0.01 to the position it started from.
C25_CyclotronCloses ==
    frames = CyclotronSteps => DisplacementSq < Milli(10) * Milli(10)

\* the classical acceleration of particle k as a function of position,
\* velocity and time: (q (E + v x B) - friction v + F_c) (1 / restMass), the
\* fields taken at (rr, tt) and F_c from the stored positions
AccelerationAt(rr, vv, tt) ==
    LET E == EAt(fieldFunctions, rr, tt)
        B == BAt(fieldFunctions, rr, tt)
        lorentz == VScale(VAdd(E, VCross(vv, B)), particles[k].q)
        drag == VScale(vv, FNeg(PARAMS.physics.friction))
        coulomb == CoulombSumFrom(PARAMS, particles, k, 1)
    IN  VScale(VAdd(VAdd(lorentz, drag), coulomb), FDiv(One, PARAMS.physics.restMass))

\* k1 + 2 k2 + 2 k3 + k4, times 1/6
RK4Weighted(k1, k2, k3, k4) ==
    VScale(VAdd(VAddScaled(VAddScaled(k1, k2, 2 * One), k3, 2 * One), k4), Sixth)

\* the 4-stage Runge-Kutta step for particle k with the acceleration
\* function AccelerationAt, the increments kNv = aN dt and kNr = vN dt formed
\* as rk4Step forms them
RK4Reference ==
    LET r0 == particles[k].r
        v0 == particles[k].v
        t0 == totalTimeSec
        tHalf == FAdd(t0, FDiv(dt, 2 * One))
        k1v == VScale(AccelerationAt(r0, v0, t0), dt)
        k1r == VScale(v0, dt)
        v2 == VAddScaled(v0, k1v, Half)
        r2 == VAddScaled(r0, k1r, Half)
        k2v == VScale(AccelerationAt(r2, v2, tHalf), dt)
        k2r == VScale(v2, dt)
        v3 == VAddScaled(v0, k2v, Half)
        r3 == VAddScaled(r0, k2r, Half)
        k3v == VScale(AccelerationAt(r3, v3, tHalf), dt)
        k3r == VScale(v3, dt)
        v4 == VAdd(v0, k3v)
        r4 == VAdd(r0, k3r)
        k4v == VScale(AccelerationAt(r4, v4, FAdd(t0, dt)), dt)
        k4r == VScale(v4, dt)
    IN  [dr |-> RK4Weighted(k1r, k2r, k3r, k4r), dv |-> RK4Weighted(k1v, k2v, k3v, k4v)]

\* C26: the delta rk4Step returns for particle k is the delta of the
\* reference 4-stage Runge-Kutta step (here in classical mode, where the
\* acceleration function is the one of C21).
C26_RK4MatchesReference ==
    (pc = "map" /\ ~PARAMS.physics.useRelativity /\ DeltaWith(temp).err = "none") =>
        /\ DeltaWith(temp).dr = RK4Reference.dr
        /\ DeltaWith(temp).dv = RK4Reference.dv

\* the stores right before the calls a(v2, r2, ..), a(v3, r3, ..) and
\* a(v4, r4, ..) of the rk4Step call map() is about to make for particle k
BeforeCall2 ==
    rk4Stage(rk4K1(Store, PARAMS, fieldFunctions, k, dt, totalTimeSec),
             k, TRef("k1v"), TRef("k1r"), Half)
BeforeCall3 ==
    rk4Stage(rk4K2(rk4K1(Store, PARAMS, fieldFunctions, k, dt, totalTimeSec),
                   PARAMS, fieldFunctions, k, dt, totalTimeSec),
             k, TRef("k2v"), TRef("k2r"), Half)
BeforeCall4 ==
    rk4Stage(rk4K3(rk4K2(rk4K1(Store, PARAMS, fieldFunctions, k, dt, totalTimeSec),
                         PARAMS, fieldFunctions, k, dt, totalTimeSec),
                   PARAMS, fieldFunctions, k, dt, totalTimeSec),
             k, TRef("k3v"), TRef("k3r"), One)

\* the store after the call a(vel, pos, tt) made in store m
AfterCall(m, vel, pos, tt) == a(m, PARAMS, fieldFunctions, k, vel, pos, tt)

\* the call a(vel, pos, tt) made in store m returns with the vectors vel and
\* pos holding what they held when it was made
ArgumentsKept(m, vel, pos, tt) ==
    AfterCall(m, vel, pos, tt).err = "none" =>
        /\ Get(AfterCall(m, vel, pos, tt), vel) = Get(m, vel)
        /\ Get(AfterCall(m, vel, pos, tt), pos) = Get(m, pos)

\* C27: each of the four acceleration evaluations of rk4Step returns with
\* its velocity and position arguments unchanged.
C27_ArgumentsKept ==
    pc = "map" =>
        /\ ArgumentsKept(Store, PRef(k, "v"), PRef(k, "r"), totalTimeSec)
        /\ ArgumentsKept(BeforeCall2, vStage, rStage, FAdd(totalTimeSec, FDiv(dt, 2 * One)))
        /\ ArgumentsKept(BeforeCall3, vStage, rStage, FAdd(totalTimeSec, FDiv(dt, 2 * One)))
        /\ ArgumentsKept(BeforeCall4, vStage, rStage, FAdd(totalTimeSec, dt))

\* C28: in relativistic mode a running frame whose rk4Step calls and
\* applyUpdates raised no error runs to the end of its try block and leaves
\* the loop running.
C28_RelativisticFrameKeepsRunning ==
    (/\ hist.op = "update" /\ pc = "idle" /\ ~hist.prePaused
     /\ PARAMS.physics.useRelativity
     /\ hist.applied = 1..Len(particles)
     /\ hist.status # "thrown in apply") =>
        hist.status = "completed" /\ ~isPaused

\* C29: every frame callback stores its own time in lastTimeSec, paused or
\* not; a paused callback integrates nothing, and a running callback
\* integrates the clamped time since the previous callback only, so the time
\* spent paused reaches neither the particles nor totalTimeSec.
C29_PausedTimeNeverIntegrated ==
    [][frames' # frames =>
         /\ lastTimeSec' = nowSec'
         /\ IF isPaused
            THEN /\ pc' = "idle"
                 /\ totalTimeSec' = totalTimeSec
                 /\ particles' = particles
            ELSE nowSec' > nowSec =>
                    /\ pc' = "map"
                    /\ dt' = clampDt(nowSec' - nowSec)
                    /\ totalTimeSec' = totalTimeSec + dt']_vars

\* the first running frame after a pause of two seconds: it integrates the
\* 16 ms since the paused callback
C29_Witness ==
    /\ frames = 2 /\ ops = 2 /\ alerts = 0 /\ timeDisplay = 0
    /\ hist.op = "update" /\ pc = "map" /\ ~isPaused
    /\ nowSec = Milli(2016)
    /\ dt = clampDt(Milli(16)) /\ dt < MAX_DT
    /\ totalTimeSec = dt

\* the time arguments of the four acceleration evaluations of rk4Step
tStage2 == FAdd(totalTimeSec, FDiv(dt, 2 * One))
tStage4 == FAdd(totalTimeSec, dt)

\* the stores the four calls of a leave in the rk4Step call map() is about
\* to make for particle k
AfterCall1 == AfterCall(Store, PRef(k, "v"), PRef(k, "r"), totalTimeSec)
AfterCall2 == AfterCall(BeforeCall2, vStage, rStage, tStage2)
AfterCall3 == AfterCall(BeforeCall3, vStage, rStage, tStage2)
AfterCall4 == AfterCall(BeforeCall4, vStage, rStage, tStage4)

\* the vector computeCoulombForce returned in the evaluation that left store m
CoulombOf(m) == Get(m, TRef("vec3"))

\* C30: in classical mode the Coulomb force computed in each of the four
\* acceleration evaluations of one rk4Step is the same vector, the softened
\* sum over the stored positions of the particles, whatever stage position
\* is passed to the evaluation.
C30_CoulombSameInAllStages ==
    (pc = "map" /\ ~PARAMS.physics.useRelativity /\ AfterCall4.err = "none") =>
        /\ CoulombOf(AfterCall1) = CoulombSumFrom(PARAMS, particles, k, 1)
        /\ CoulombOf(AfterCall2) = CoulombOf(AfterCall1)
        /\ CoulombOf(AfterCall3) = CoulombOf(AfterCall1)
        /\ CoulombOf(AfterCall4) = CoulombOf(AfterCall1)
        /\ AfterCall4.p = particles

\* C30 witness: a classical step for one of several particles with k_e > 0
\* whose Coulomb force is not zero and whose stage position arguments differ
\* from its stored position and from each other
C30_Witness ==
    /\ pc = "map" /\ ~PARAMS.physics.useRelativity /\ AfterCall4.err = "none"
    /\ Len(particles) > 1 /\ PARAMS.physics.k_e > 0
    /\ CoulombOf(AfterCall4) # Zero3
    /\ Get(BeforeCall2, rStage) # particles[k].r
    /\ Get(BeforeCall4, rStage) # Get(BeforeCall2, rStage)

====
